---- MODULE Spec2Model ----
(***************************************************************************)
(* Model of gauges_backend: the newline-delimited JSON framing over a      *)
(* serial port (read_message_string / write_message), the request decoder  *)
(* (InMessage::deserialize), the dispatcher (handle_message) and the       *)
(* session loop of main.                                                   *)
(*                                                                         *)
(* Bytes are the integers 0..255.  A Rust String is modelled by the        *)
(* sequence of its UTF-8 bytes.  An f32 is modelled by an integer number   *)
(* of thousandths, the representable values of the model; a product is     *)
(* rounded to the nearest of them, ties to even, as binary32 rounds.       *)
(***************************************************************************)
EXTENDS Integers, Sequences, FiniteSets, TLC

\* ------------------------------------------------------------------ bounds

\* Chunks the peer transmits in one run.
MaxChunks == 2
\* Ports opened in one run.
MaxPorts == 2
\* Bytes in flight from the peer to the host.
MaxInbound == 13
\* Bytes of the stream the framer harness reads.
MaxStream == 6

\* --------------------------------------------------------------- constants

MESSAGE_END_BYTE == 10

OLED_COLOR_BLUE == 31
OLED_COLOR_RED == 63488
OLED_COLOR_WARM == 64512

\* One unit of an f32 in the model: thousandths.
Milli == 10 * 10 * 10

\* ------------------------------------------------------------ byte strings

K_type == <<116, 121, 112, 101>>  \* type
K_message == <<109, 101, 115, 115, 97, 103, 101>>  \* message
K_theme == <<116, 104, 101, 109, 101>>  \* theme
K_ok_color == <<111, 107, 95, 99, 111, 108, 111, 114>>  \* ok_color
K_low_color == <<108, 111, 119, 95, 99, 111, 108, 111, 114>>  \* low_color
K_high_color == <<104, 105, 103, 104, 95, 99, 111, 108, 111, 114>>  \* high_color
K_alert_color == <<97, 108, 101, 114, 116, 95, 99, 111, 108, 111, 114>>  \* alert_color
K_display1 == <<100, 105, 115, 112, 108, 97, 121, 49>>  \* display1
K_display2 == <<100, 105, 115, 112, 108, 97, 121, 50>>  \* display2
K_display3 == <<100, 105, 115, 112, 108, 97, 121, 51>>  \* display3
K_gauges == <<103, 97, 117, 103, 101, 115>>  \* gauges
K_name == <<110, 97, 109, 101>>  \* name
K_units == <<117, 110, 105, 116, 115>>  \* units
K_format == <<102, 111, 114, 109, 97, 116>>  \* format
K_min == <<109, 105, 110>>  \* min
K_max == <<109, 97, 120>>  \* max
K_low_value == <<108, 111, 119, 95, 118, 97, 108, 117, 101>>  \* low_value
K_high_value == <<104, 105, 103, 104, 95, 118, 97, 108, 117, 101>>  \* high_value
K_current_value == <<99, 117, 114, 114, 101, 110, 116, 95, 118, 97, 108, 117, 101>>  \* current_value
S_COOLANT == <<67, 79, 79, 76, 65, 78, 84>>  \* COOLANT
S_C == <<67>>  \* C
S_fmt0 == <<37, 46, 48, 102>>  \* %.0f
S_OIL == <<79, 73, 76>>  \* OIL
S_bar == <<98, 97, 114>>  \* bar
S_fmt2 == <<37, 46, 50, 102>>  \* %.2f
T_true == <<116, 114, 117, 101>>  \* true
T_false == <<102, 97, 108, 115, 101>>  \* false
T_null == <<110, 117, 108, 108>>  \* null

\* ------------------------------------------------------- String::from_utf8

IsCont(s, i) == i <= Len(s) /\ s[i] >= 128 /\ s[i] <= 191

InRange(s, i, lo, hi) == i <= Len(s) /\ s[i] >= lo /\ s[i] <= hi

\* The number of bytes of the well-formed UTF-8 sequence that starts at s[i],
\* or 0 when none starts there.
Utf8SeqLen(s, i) ==
    LET b == s[i] IN
    IF b < 128 THEN 1
    ELSE IF b >= 194 /\ b <= 223 THEN (IF IsCont(s, i + 1) THEN 2 ELSE 0)
    ELSE IF b = 224
        THEN (IF InRange(s, i + 1, 160, 191) /\ IsCont(s, i + 2) THEN 3 ELSE 0)
    ELSE IF b = 237
        THEN (IF InRange(s, i + 1, 128, 159) /\ IsCont(s, i + 2) THEN 3 ELSE 0)
    ELSE IF b >= 225 /\ b <= 239
        THEN (IF IsCont(s, i + 1) /\ IsCont(s, i + 2) THEN 3 ELSE 0)
    ELSE IF b = 240
        THEN (IF InRange(s, i + 1, 144, 191) /\ IsCont(s, i + 2) /\ IsCont(s, i + 3)
              THEN 4 ELSE 0)
    ELSE IF b = 244
        THEN (IF InRange(s, i + 1, 128, 143) /\ IsCont(s, i + 2) /\ IsCont(s, i + 3)
              THEN 4 ELSE 0)
    ELSE IF b >= 241 /\ b <= 243
        THEN (IF IsCont(s, i + 1) /\ IsCont(s, i + 2) /\ IsCont(s, i + 3)
              THEN 4 ELSE 0)
    ELSE 0

RECURSIVE Utf8ValidFrom(_, _)
Utf8ValidFrom(s, i) ==
    IF i > Len(s) THEN TRUE
    ELSE LET n == Utf8SeqLen(s, i) IN
         IF n = 0 THEN FALSE ELSE Utf8ValidFrom(s, i + n)

\* String::from_utf8(bytes).is_ok()
from_utf8_ok(bytes) == Utf8ValidFrom(bytes, 1)

\* ------------------------------------------------- serde_json::from_str

\* A parse step's result: failure, or the value read and the index after it.
\* The parser covers RFC 8259 except \u escapes in strings, which no byte
\* string of the model contains, and integer tokens beyond u64, which the
\* model's inputs are too short to hold.
PFail == [ok |-> FALSE]

POk(v, i) == [ok |-> TRUE, v |-> v, i |-> i]

IsDigit(b) == b >= 48 /\ b <= 57

IsWs(b) == b \in {32, 9, 10, 13}

RECURSIVE SkipWs(_, _)
SkipWs(s, i) == IF i <= Len(s) /\ IsWs(s[i]) THEN SkipWs(s, i + 1) ELSE i

RECURSIVE ScanDigits(_, _)
ScanDigits(s, i) == IF i <= Len(s) /\ IsDigit(s[i]) THEN ScanDigits(s, i + 1) ELSE i

RECURSIVE DigitsValue(_, _, _, _)
DigitsValue(s, i, j, acc) ==
    IF i >= j THEN acc ELSE DigitsValue(s, i + 1, j, acc * 10 + (s[i] - 48))

HasPrefixAt(s, i, lit) ==
    /\ i + Len(lit) - 1 <= Len(s)
    /\ \A k \in 1..Len(lit) : s[i + k - 1] = lit[k]

Unescape(e) ==
    CASE e = 98 -> 8
      [] e = 102 -> 12
      [] e = 110 -> 10
      [] e = 114 -> 13
      [] e = 116 -> 9
      [] OTHER -> e

RECURSIVE ParseStringBody(_, _, _)
ParseStringBody(s, i, acc) ==
    IF i > Len(s) THEN PFail
    ELSE IF s[i] = 34 THEN POk([kind |-> "String", s |-> acc], i + 1)
    ELSE IF s[i] = 92
        THEN IF i + 1 <= Len(s) /\ s[i + 1] \in {34, 92, 47, 98, 102, 110, 114, 116}
             THEN ParseStringBody(s, i + 2, Append(acc, Unescape(s[i + 1])))
             ELSE PFail
    ELSE IF s[i] < 32 THEN PFail
    ELSE ParseStringBody(s, i + 1, Append(acc, s[i]))

ParseNumber(s, i) ==
    LET neg == s[i] = 45
        d0 == IF neg THEN i + 1 ELSE i
    IN  IF ~(d0 <= Len(s) /\ IsDigit(s[d0])) THEN PFail
        ELSE
        LET intEnd == IF s[d0] = 48 THEN d0 + 1 ELSE ScanDigits(s, d0)
            hasFrac == intEnd <= Len(s) /\ s[intEnd] = 46
            fracEnd == IF hasFrac THEN ScanDigits(s, intEnd + 1) ELSE intEnd
            hasExp == fracEnd <= Len(s) /\ s[fracEnd] \in {101, 69}
            e0 == IF fracEnd + 1 <= Len(s) /\ s[fracEnd + 1] \in {43, 45}
                  THEN fracEnd + 2 ELSE fracEnd + 1
            expEnd == IF hasExp THEN ScanDigits(s, e0) ELSE fracEnd
            n == DigitsValue(s, d0, intEnd, 0)
        IN  IF s[d0] = 48 /\ intEnd <= Len(s) /\ IsDigit(s[intEnd]) THEN PFail
            ELSE IF hasFrac /\ fracEnd = intEnd + 1 THEN PFail
            ELSE IF hasExp /\ expEnd = e0 THEN PFail
            ELSE POk([kind |-> "Number",
                      isU64 |-> ~neg /\ ~hasFrac /\ ~hasExp,
                      n |-> n], expEnd)

RECURSIVE ParseValue(_, _)
RECURSIVE ParseElements(_, _, _)
RECURSIVE ParseMembers(_, _, _)

\* After '[' and at least one element: i is at ',' or ']' (whitespace skipped).
ParseElements(s, i, acc) ==
    IF i > Len(s) THEN PFail
    ELSE IF s[i] = 93 THEN POk([kind |-> "Array", a |-> acc], i + 1)
    ELSE IF s[i] # 44 THEN PFail
    ELSE LET r == ParseValue(s, SkipWs(s, i + 1)) IN
         IF ~r.ok THEN PFail
         ELSE ParseElements(s, SkipWs(s, r.i), Append(acc, r.v))

\* One "key": value member starting at i (whitespace skipped).
ParseMember(s, i) ==
    IF ~(i <= Len(s) /\ s[i] = 34) THEN PFail
    ELSE LET k == ParseStringBody(s, i + 1, <<>>) IN
         IF ~k.ok THEN PFail
         ELSE LET c == SkipWs(s, k.i) IN
              IF ~(c <= Len(s) /\ s[c] = 58) THEN PFail
              ELSE LET r == ParseValue(s, SkipWs(s, c + 1)) IN
                   IF ~r.ok THEN PFail
                   ELSE POk([k |-> k.v.s, v |-> r.v], r.i)

\* After '{' and at least one member: i is at ',' or '}' (whitespace skipped).
ParseMembers(s, i, acc) ==
    IF i > Len(s) THEN PFail
    ELSE IF s[i] = 125 THEN POk([kind |-> "Object", m |-> acc], i + 1)
    ELSE IF s[i] # 44 THEN PFail
    ELSE LET r == ParseMember(s, SkipWs(s, i + 1)) IN
         IF ~r.ok THEN PFail
         ELSE ParseMembers(s, SkipWs(s, r.i), Append(acc, r.v))

ParseValue(s, i) ==
    IF i > Len(s) THEN PFail
    ELSE IF s[i] = 123
        THEN LET j == SkipWs(s, i + 1) IN
             IF j <= Len(s) /\ s[j] = 125
             THEN POk([kind |-> "Object", m |-> <<>>], j + 1)
             ELSE LET r == ParseMember(s, j) IN
                  IF ~r.ok THEN PFail
                  ELSE ParseMembers(s, SkipWs(s, r.i), <<r.v>>)
    ELSE IF s[i] = 91
        THEN LET j == SkipWs(s, i + 1) IN
             IF j <= Len(s) /\ s[j] = 93
             THEN POk([kind |-> "Array", a |-> <<>>], j + 1)
             ELSE LET r == ParseValue(s, j) IN
                  IF ~r.ok THEN PFail
                  ELSE ParseElements(s, SkipWs(s, r.i), <<r.v>>)
    ELSE IF s[i] = 34 THEN ParseStringBody(s, i + 1, <<>>)
    ELSE IF s[i] = 45 \/ IsDigit(s[i]) THEN ParseNumber(s, i)
    ELSE IF HasPrefixAt(s, i, T_true) THEN POk([kind |-> "Bool"], i + Len(T_true))
    ELSE IF HasPrefixAt(s, i, T_false) THEN POk([kind |-> "Bool"], i + Len(T_false))
    ELSE IF HasPrefixAt(s, i, T_null) THEN POk([kind |-> "Null"], i + Len(T_null))
    ELSE PFail

\* Value::get(key): the member of an object with that key (the last one when
\* the key repeats), None for every other value.
NoneValue == [kind |-> "None"]

RECURSIVE LookupFrom(_, _, _)
LookupFrom(m, key, i) ==
    IF i = 0 THEN NoneValue
    ELSE IF m[i].k = key THEN m[i].v
    ELSE LookupFrom(m, key, i - 1)

ValueGet(v, key) ==
    IF v.kind = "Object" THEN LookupFrom(v.m, key, Len(v.m)) ELSE NoneValue

\* Value::as_u64 succeeds
IsU64(v) == v.kind = "Number" /\ v.isU64

\* ------------------------------------------------ InMessage::deserialize

\* The outcome of InMessage::deserialize on a parsed Value: the u64 under
\* "type" selects the variant; unwrap() panics when "type" is absent or no
\* u64, and every other discriminant reaches panic!.
InMessage_deserialize(value) ==
    LET ty == ValueGet(value, K_type) IN
    IF ~IsU64(ty) THEN "panic"
    ELSE IF ty.n = 1 THEN "NeedGaugeConfig"
    ELSE IF ty.n = 2 THEN "NeedGaugeData"
    ELSE "panic"

\* serde_json::from_str::<InMessage>(text): Value::deserialize fails on
\* malformed JSON; then InMessage::deserialize runs; only after it has
\* returned does from_str reject trailing characters.
from_str(text) ==
    LET r == ParseValue(text, SkipWs(text, 1)) IN
    IF ~r.ok THEN "JsonError"
    ELSE LET m == InMessage_deserialize(r.v) IN
         IF m = "panic" THEN "panic"
         ELSE IF SkipWs(text, r.i) <= Len(text) THEN "JsonError"
         ELSE m

\* --------------------------------------------------- serde_json::to_vec

RECURSIVE NatDigits(_)
NatDigits(n) ==
    IF n < 10 THEN <<48 + n>> ELSE Append(NatDigits(n \div 10), 48 + (n % 10))

HexDigit(n) == IF n < 10 THEN 48 + n ELSE 87 + n

\* The bytes serde_json writes for one byte of a string.
EscapeByte(b) ==
    CASE b = 34 -> <<92, 34>>
      [] b = 92 -> <<92, 92>>
      [] b = 8 -> <<92, 98>>
      [] b = 12 -> <<92, 102>>
      [] b = 10 -> <<92, 110>>
      [] b = 13 -> <<92, 114>>
      [] b = 9 -> <<92, 116>>
      [] b < 32 /\ b \notin {8, 9, 10, 12, 13} ->
            <<92, 117, 48, 48, HexDigit(b \div 16), HexDigit(b % 16)>>
      [] OTHER -> <<b>>

RECURSIVE EscapeBytes(_)
EscapeBytes(s) == IF s = <<>> THEN <<>> ELSE EscapeByte(Head(s)) \o EscapeBytes(Tail(s))

JsonString(s) == <<34>> \o EscapeBytes(s) \o <<34>>

\* The fractional digits of f thousandths (0 <= f < Milli), trailing zeros
\* dropped, at least one digit kept.
FracDigits(f) ==
    LET d1 == f \div 100
        d2 == (f \div 10) % 10
        d3 == f % 10
    IN  IF d2 = 0 /\ d3 = 0 THEN <<48 + d1>>
        ELSE IF d3 = 0 THEN <<48 + d1, 48 + d2>>
        ELSE <<48 + d1, 48 + d2, 48 + d3>>

\* The shortest decimal that reads back as the f32, as serde_json prints a
\* finite f32 (always with a fractional part): 130.0, 19.25, 1.625.
JsonF32(m) == NatDigits(m \div Milli) \o <<46>> \o FracDigits(m % Milli)

JsonField(key, valueBytes) == JsonString(key) \o <<58>> \o valueBytes

RECURSIVE JoinComma(_)
JoinComma(ss) ==
    IF ss = <<>> THEN <<>>
    ELSE IF Len(ss) = 1 THEN ss[1]
    ELSE ss[1] \o <<44>> \o JoinComma(Tail(ss))

JsonObject(fields) == <<123>> \o JoinComma(fields) \o <<125>>

JsonArray(elems) == <<91>> \o JoinComma(elems) \o <<93>>

\* ------------------------------------------------------------------ dto

GaugeTheme_default ==
    [ok_color |-> OLED_COLOR_WARM, low_color |-> OLED_COLOR_BLUE,
     high_color |-> OLED_COLOR_RED, alert_color |-> OLED_COLOR_RED]

\* #[derive(Serialize)] writes the fields in declaration order.
Ser_GaugeTheme(t) ==
    JsonObject(<<JsonField(K_ok_color, NatDigits(t.ok_color)),
                 JsonField(K_low_color, NatDigits(t.low_color)),
                 JsonField(K_high_color, NatDigits(t.high_color)),
                 JsonField(K_alert_color, NatDigits(t.alert_color))>>)

Ser_GaugeConfig(g) ==
    JsonObject(<<JsonField(K_name, JsonString(g.name)),
                 JsonField(K_units, JsonString(g.units)),
                 JsonField(K_format, JsonString(g.format)),
                 JsonField(K_min, JsonF32(g.min)),
                 JsonField(K_max, JsonF32(g.max)),
                 JsonField(K_low_value, JsonF32(g.low_value)),
                 JsonField(K_high_value, JsonF32(g.high_value))>>)

Ser_GaugeData(g) == JsonObject(<<JsonField(K_current_value, JsonF32(g.current_value))>>)

Ser_DisplayConfiguration(d) ==
    JsonObject(<<JsonField(K_gauges,
        JsonArray([i \in 1..Len(d.gauges) |-> Ser_GaugeConfig(d.gauges[i])]))>>)

Ser_DisplayData(d) ==
    JsonObject(<<JsonField(K_gauges,
        JsonArray([i \in 1..Len(d.gauges) |-> Ser_GaugeData(d.gauges[i])]))>>)

Ser_Configuration(c) ==
    JsonObject(<<JsonField(K_theme, Ser_GaugeTheme(c.theme)),
                 JsonField(K_display1, Ser_DisplayConfiguration(c.display1)),
                 JsonField(K_display2, Ser_DisplayConfiguration(c.display2)),
                 JsonField(K_display3, Ser_DisplayConfiguration(c.display3))>>)

Ser_Data(d) ==
    JsonObject(<<JsonField(K_display1, Ser_DisplayData(d.display1)),
                 JsonField(K_display2, Ser_DisplayData(d.display2)),
                 JsonField(K_display3, Ser_DisplayData(d.display3))>>)

\* impl Serialize for OutMessage: "type" (1 or 2), then "message".
OutMessage_serialize(out) ==
    IF out.variant = "Configuration"
    THEN JsonObject(<<JsonField(K_type, NatDigits(1)),
                      JsonField(K_message, Ser_Configuration(out.message))>>)
    ELSE JsonObject(<<JsonField(K_type, NatDigits(2)),
                      JsonField(K_message, Ser_Data(out.message))>>)

\* ------------------------------------------------------- handle_message

\* f32 product of two values. An f32 product is the exact product rounded to
\* the nearest representable value, ties to even; the values of the model
\* are the thousandths, and the product is rounded to them the same way.
MulF32(a, b) ==
    LET q == (a * b) \div Milli
        r == (a * b) % Milli
    IN  IF 2 * r < Milli THEN q
        ELSE IF 2 * r > Milli THEN q + 1
        ELSE IF q % 2 = 0 THEN q
        ELSE q + 1

\* The values rng.gen::<f32>() takes in the model, in thousandths of [0, 1):
\* three whose products with 77.0 and 6.5 are exact, and 0.333, whose product
\* with 6.5 is rounded.
Factors == {0, 250, 333, 750}

None == [some |-> FALSE]

Some(x) == [some |-> TRUE, v |-> x]

ConfigurationMessage ==
    [variant |-> "Configuration",
     message |->
        [theme |-> GaugeTheme_default,
         display1 |-> [gauges |-> <<
            [name |-> S_COOLANT, units |-> S_C, format |-> S_fmt0,
             min |-> 0, max |-> 130000, low_value |-> 60000, high_value |-> 100000]>>],
         display2 |-> [gauges |-> <<
            [name |-> S_OIL, units |-> S_bar, format |-> S_fmt2,
             min |-> 0, max |-> 10000, low_value |-> 1000, high_value |-> 8000]>>],
         display3 |-> [gauges |-> <<>>]]]

\* A Data message whose two values come from two samples of the generator.
DataMessage_TwoSamples(factor) ==
    [variant |-> "Data",
     message |->
        [display1 |-> [gauges |-> <<[current_value |-> MulF32(77000, factor)]>>],
         display2 |-> [gauges |-> <<[current_value |-> MulF32(6500, 750 - factor)]>>],
         display3 |-> [gauges |-> <<>>]]]

\* A Data message that reports a gauge on display3, for which the
\* Configuration declares none.
DataMessage_ExtraGauge(factor) ==
    [variant |-> "Data",
     message |->
        [display1 |-> [gauges |-> <<[current_value |-> MulF32(77000, factor)]>>],
         display2 |-> [gauges |-> <<[current_value |-> MulF32(6500, factor)]>>],
         display3 |-> [gauges |-> <<[current_value |-> MulF32(6500, factor)]>>]]]

DataMessage(factor) ==
    [variant |-> "Data",
     message |->
        [display1 |-> [gauges |-> <<[current_value |-> MulF32(77000, factor)]>>],
         display2 |-> [gauges |-> <<[current_value |-> MulF32(6500, factor)]>>],
         display3 |-> [gauges |-> <<>>]]]

\* The request variants the match of handle_message has an arm for.
InMessages == {"NeedGaugeConfig", "NeedGaugeData", "Debug"}

\* handle_message with a Configuration that takes the upper limit of the
\* first gauge from the generator.
handle_message_SampledConfig(message, factor) ==
    IF message = "NeedGaugeConfig"
        THEN Some([ConfigurationMessage EXCEPT
                    !.message.display1.gauges[1].max = 130000 + factor])
    ELSE IF message = "NeedGaugeData" THEN Some(DataMessage(factor))
    ELSE None

\* handle_message(message), with the factor the generator yields in the call.
\* The last arm is InMessage::Debug, which main.rs matches and
\* InMessage::deserialize never produces.
handle_message(message, factor) ==
    IF message = "NeedGaugeConfig" THEN Some(ConfigurationMessage)
    ELSE IF message = "NeedGaugeData" THEN Some(DataMessage(factor))
    ELSE None

\* write_message without the push of MESSAGE_END_BYTE.
write_message_buf_NoDelimiter(out) == OutMessage_serialize(out)

\* The buffer write_message hands to port.write_all: the compact JSON of the
\* message, then MESSAGE_END_BYTE.
write_message_buf(out) == Append(OutMessage_serialize(out), MESSAGE_END_BYTE)

\* ------------------------------------------------- read_message_string

\* A read buffer of two bytes: message_buffer: [u8; 2].
ReadBufLen_Two == 1 + 1

\* let mut message_buffer: [u8; 1]
ReadBufLen == 1

\* ProcessByte without the continue after the opening delimiter: the
\* delimiter that starts the message falls through to the push.
ProcessByte_NoContinue(st, byte) ==
    IF byte = MESSAGE_END_BYTE /\ ~st.found_message_start
        THEN [st EXCEPT !.found_message_start = TRUE,
                        !.message_string_buffer = Append(@, byte)]
    ELSE IF byte = MESSAGE_END_BYTE /\ ~st.found_message_end
        THEN [st EXCEPT !.found_message_end = TRUE]
    ELSE IF st.found_message_start /\ ~st.found_message_end
        THEN [st EXCEPT !.message_string_buffer = Append(@, byte)]
    ELSE st

\* ProcessByte that pushes without asking for found_message_start: bytes
\* ahead of the opening delimiter are kept.
ProcessByte_KeepsLeading(st, byte) ==
    IF byte = MESSAGE_END_BYTE /\ ~st.found_message_start
        THEN [st EXCEPT !.found_message_start = TRUE]
    ELSE IF byte = MESSAGE_END_BYTE /\ ~st.found_message_end
        THEN [st EXCEPT !.found_message_end = TRUE]
    ELSE IF ~st.found_message_end
        THEN [st EXCEPT !.message_string_buffer = Append(@, byte)]
    ELSE st

\* The body of the for loop for one byte; st holds message_string_buffer,
\* found_message_start and found_message_end.
ProcessByte(st, byte) ==
    IF byte = MESSAGE_END_BYTE /\ ~st.found_message_start
        THEN [st EXCEPT !.found_message_start = TRUE]
    ELSE IF byte = MESSAGE_END_BYTE /\ ~st.found_message_end
        THEN [st EXCEPT !.found_message_end = TRUE]
    ELSE IF st.found_message_start /\ ~st.found_message_end
        THEN [st EXCEPT !.message_string_buffer = Append(@, byte)]
    ELSE st

\* The for loop preceded by a test that takes a read of no bytes for the end
\* of the stream and ends the read loop.
RECURSIVE ProcessBytes_ZeroEnds(_, _)
ProcessBytes_ZeroEnds(st, bytes) ==
    IF Len(bytes) = 0 THEN [st EXCEPT !.found_message_end = TRUE]
    ELSE IF Len(bytes) = 1 THEN ProcessByte(st, bytes[1])
    ELSE ProcessBytes_ZeroEnds(ProcessByte(st, Head(bytes)), Tail(bytes))

\* The for loop over the bytes one port.read returned.
RECURSIVE ProcessBytes(_, _)
ProcessBytes(st, bytes) ==
    IF bytes = <<>> THEN st
    ELSE ProcessBytes(ProcessByte(st, Head(bytes)), Tail(bytes))

\* The locals at the entry of read_message_string.
ReadLocals0 ==
    [message_string_buffer |-> <<>>,
     found_message_start |-> FALSE,
     found_message_end |-> FALSE]

\* What read_message_string returns once the loop has ended.
read_message_string_ret(buffer) ==
    IF from_utf8_ok(buffer)
    THEN [tag |-> "Ok", string |-> buffer]
    ELSE [tag |-> "UtfConversion", string |-> <<>>]

\* What read_message makes of an Ok(json_string) of read_message_string.
read_message_ret(json_string) ==
    LET d == from_str(json_string) IN
    IF d = "JsonError" THEN [tag |-> "JsonParsing", message |-> "none"]
    ELSE IF d = "panic" THEN [tag |-> "panic", message |-> "none"]
    ELSE [tag |-> "Ok", message |-> d]

\* handle_error that takes every error for transient.
handle_error_NeverFatal(tag) == FALSE

\* handle_error that takes every error for fatal.
handle_error_AlwaysFatal(tag) == TRUE

\* handle_error(error).is_err(): only Error::IO is fatal.
handle_error_is_err(tag) == tag = "IO"

\* ------------------------------------------------------------- get_port

\* What get_port does for each thing the system can answer: available_ports
\* fails, lists nothing, or lists a port whose open fails, whose name is
\* missing, or that opens.
get_port(env) ==
    CASE env = "enum_err" -> "panic"     \* .expect("No ports found!")
      [] env = "empty" -> "None"
      [] env = "open_fail" -> "panic"    \* .expect("Failed to open port")
      [] env = "no_name" -> "panic"      \* .expect("No port name!")
      [] env = "open_ok" -> "Some"

PortEnvs == {"enum_err", "empty", "open_fail", "no_name", "open_ok"}

\* ---------------------------------------------------------------- state

VARIABLES
    pc,                      \* where main (or the framer harness) stands
    port,                    \* the open port handle, 0 when none is held
    nports,                  \* ports opened so far
    is_communication_begin,
    message_string_buffer,   \* locals of read_message_string
    found_message_start,
    found_message_end,
    message,                 \* the InMessage read_message returned
    inbound,                 \* bytes in flight from the peer to the host
    nsent,                   \* chunks the peer has transmitted
    \* history of the run
    last_io,                 \* the latest operation on a port
    read_result,             \* how the latest read_message ended
    json_string,             \* the latest Ok of read_message_string
    last_write,              \* the latest buffer handed to port.write_all
    first_io,                \* the first read or write of the session
    nwrites,                 \* port.write_all calls of the session
    synthesized,             \* requests synthesized in the session
    get_port_env,            \* what the system answered the latest get_port
    faulted,                 \* ports abandoned after an I/O error
    ndecoded,                \* requests of the session decoded from the port
    last_request,            \* the latest InMessage given to handle_message
    last_out,                \* what handle_message returned for it
    last_config,             \* the latest Configuration buffer of the session
    \* the framer harness
    stream0,                 \* the whole stream the harness reads
    results                  \* what each read_message_string call returned

locals == <<message_string_buffer, found_message_start, found_message_end>>

sessionHist == <<read_result, json_string, last_write, first_io, nwrites, synthesized>>

dispatchHist == <<ndecoded, last_request, last_out, last_config>>

harnessVars == <<stream0, results>>

vars == <<pc, port, nports, is_communication_begin, locals, message, inbound,
          nsent, last_io, sessionHist, dispatchHist, get_port_env, faulted,
          harnessVars>>

NoIo == [op |-> "none", ok |-> TRUE, n |-> 0, port |-> 0]

Io(op, ok, n, p) == [op |-> op, ok |-> ok, n |-> n, port |-> p]

LocalsRec ==
    [message_string_buffer |-> message_string_buffer,
     found_message_start |-> found_message_start,
     found_message_end |-> found_message_end]

SetLocals(st) ==
    /\ message_string_buffer' = st.message_string_buffer
    /\ found_message_start' = st.found_message_start
    /\ found_message_end' = st.found_message_end

Min(a, b) == IF a < b THEN a ELSE b

\* ----------------------------------------------------------------- peer

Frame(payload) == <<MESSAGE_END_BYTE>> \o payload \o <<MESSAGE_END_BYTE>>

ReqConfig == <<123, 34, 116, 121, 112, 101, 34, 58, 49, 125>>  \* {"type":1}
ReqData == <<123, 34, 116, 121, 112, 101, 34, 58, 50, 125>>  \* {"type":2}
ReqUnknown == <<123, 34, 116, 121, 112, 101, 34, 58, 51, 125>>  \* {"type":3}
ReqNoType == <<123, 125>>  \* {}
NotUtf8 == <<255>>

\* What the peer transmits at a time: a framed payload or a stray delimiter.
\* After a stray delimiter the reader is out of step with the frames: it
\* takes payloads for bytes outside a frame and the empty text between two
\* frames for a payload.
PeerPayloads == {ReqConfig, ReqData, ReqUnknown, ReqNoType, NotUtf8}

PeerChunks == {Frame(p) : p \in PeerPayloads} \cup {<<MESSAGE_END_BYTE>>}

\* ---------------------------------------------------------- main's loop

Init ==
    /\ pc = "get_port"
    /\ port = 0
    /\ nports = 0
    /\ is_communication_begin = FALSE
    /\ message_string_buffer = <<>>
    /\ found_message_start = FALSE
    /\ found_message_end = FALSE
    /\ message = "none"
    /\ inbound = <<>>
    /\ nsent = 0
    /\ last_io = NoIo
    /\ read_result = "none"
    /\ json_string = <<>>
    /\ last_write = <<>>
    /\ first_io = "none"
    /\ nwrites = 0
    /\ synthesized = 0
    /\ get_port_env = "none"
    /\ faulted = {}
    /\ ndecoded = 0
    /\ last_request = "none"
    /\ last_out = None
    /\ last_config = <<>>
    /\ stream0 = <<>>
    /\ results = <<>>

\* main with is_communication_begin declared before the outer loop: only
\* the first session of the process finds it set.
GetPort_StaleFlag ==
    /\ pc = "get_port"
    /\ \E env \in PortEnvs :
        LET r == get_port(env) IN
        /\ env = "open_ok" => nports < MaxPorts
        /\ get_port_env' = env
        /\ IF r = "Some"
           THEN /\ port' = nports + 1
                /\ nports' = nports + 1
                /\ is_communication_begin' = (nports = 0)
                /\ pc' = "activate"
                /\ last_io' = Io("open", TRUE, 0, nports + 1)
                /\ read_result' = "none"
                /\ json_string' = <<>>
                /\ last_write' = <<>>
                /\ first_io' = "none"
                /\ nwrites' = 0
                /\ synthesized' = 0
                /\ ndecoded' = 0
                /\ last_request' = "none"
                /\ last_out' = None
                /\ last_config' = <<>>
           ELSE /\ pc' = IF r = "None" THEN "sleep" ELSE "panicked"
                /\ last_io' = Io("open", FALSE, 0, 0)
                /\ UNCHANGED <<port, nports, is_communication_begin, sessionHist,
                               dispatchHist>>
    /\ UNCHANGED <<locals, message, inbound, nsent, faulted, harnessVars>>

\* match get_port(): Some(port) enters the session with a fresh
\* is_communication_begin; None goes to the one-second sleep.
GetPort ==
    /\ pc = "get_port"
    /\ \E env \in PortEnvs :
        LET r == get_port(env) IN
        /\ env = "open_ok" => nports < MaxPorts
        /\ get_port_env' = env
        /\ IF r = "Some"
           THEN /\ port' = nports + 1
                /\ nports' = nports + 1
                /\ is_communication_begin' = TRUE
                /\ pc' = "activate"
                /\ last_io' = Io("open", TRUE, 0, nports + 1)
                /\ read_result' = "none"
                /\ json_string' = <<>>
                /\ last_write' = <<>>
                /\ first_io' = "none"
                /\ nwrites' = 0
                /\ synthesized' = 0
                /\ ndecoded' = 0
                /\ last_request' = "none"
                /\ last_out' = None
                /\ last_config' = <<>>
           ELSE /\ pc' = IF r = "None" THEN "sleep" ELSE "panicked"
                /\ last_io' = Io("open", FALSE, 0, 0)
                /\ UNCHANGED <<port, nports, is_communication_begin, sessionHist,
                               dispatchHist>>
    /\ UNCHANGED <<locals, message, inbound, nsent, faulted, harnessVars>>

\* port.write_data_terminal_ready(true): on Err the port is dropped and main
\* sleeps; on Ok the inner loop starts.
Activate ==
    /\ pc = "activate"
    /\ \E ok \in BOOLEAN :
        /\ last_io' = Io("dtr", ok, 0, port)
        /\ pc' = IF ok THEN "read_message" ELSE "sleep"
        /\ port' = IF ok THEN port ELSE 0
    /\ UNCHANGED <<nports, is_communication_begin, locals, message, inbound, nsent,
                   sessionHist, dispatchHist,
                   get_port_env, faulted, harnessVars>>

\* std::thread::sleep(Duration::from_secs(1)), then the outer loop again.
Sleep ==
    /\ pc = "sleep"
    /\ pc' = "get_port"
    /\ UNCHANGED <<port, nports, is_communication_begin, locals, message, inbound,
                   nsent, last_io, sessionHist, dispatchHist,
                   get_port_env, faulted, harnessVars>>

\* read_message that returns the implicit NeedGaugeConfig and leaves
\* *is_communication_begin set.
ReadMessageBegin_KeepsFlag ==
    /\ pc = "read_message"
    /\ is_communication_begin
    /\ message' = "NeedGaugeConfig"
    /\ synthesized' = synthesized + 1
    /\ read_result' = "Ok"
    /\ pc' = "dispatch"
    /\ UNCHANGED <<port, nports, is_communication_begin, locals, inbound, nsent,
                   last_io, json_string, last_write, first_io, nwrites,
                   dispatchHist, get_port_env, faulted, harnessVars>>

\* read_message with *is_communication_begin set: the flag is cleared and
\* NeedGaugeConfig returned without touching the port.
ReadMessageBegin ==
    /\ pc = "read_message"
    /\ is_communication_begin
    /\ is_communication_begin' = FALSE
    /\ message' = "NeedGaugeConfig"
    /\ synthesized' = synthesized + 1
    /\ read_result' = "Ok"
    /\ pc' = "dispatch"
    /\ UNCHANGED <<port, nports, locals, inbound, nsent, last_io, json_string,
                   last_write, first_io, nwrites, dispatchHist, get_port_env,
                   faulted, harnessVars>>

\* read_message with the flag clear: read_message_string is entered.
ReadMessageString ==
    /\ pc = "read_message"
    /\ ~is_communication_begin
    /\ SetLocals(ReadLocals0)
    /\ read_result' = "pending"
    /\ message' = "none"
    /\ pc' = "port_read"
    /\ UNCHANGED <<port, nports, is_communication_begin, inbound, nsent, last_io,
                   json_string, last_write, first_io, nwrites, synthesized,
                   dispatchHist, get_port_env, faulted, harnessVars>>

\* Where the inner loop of main goes after read_message ended with tag: Ok
\* is dispatched, a panic unwinds main, an error for which handle_error
\* returns Err breaks to get_port, any other error is read over.
AfterRead(tag) ==
    IF tag = "panic" THEN "panicked"
    ELSE IF tag = "Ok" THEN "dispatch"
    ELSE IF handle_error_is_err(tag) THEN "get_port"
    ELSE "read_message"

\* One port.read of read_message_string and what follows it up to the next
\* operation on the port: the for loop over the bytes read; when the closing
\* delimiter was among them, from_utf8, from_str and main's match.
PortRead ==
    /\ pc = "port_read"
    /\ \/ \E n \in 0..Min(ReadBufLen, Len(inbound)) :
            LET st == ProcessBytes(LocalsRec, SubSeq(inbound, 1, n))
                s == read_message_string_ret(st.message_string_buffer)
                r == IF s.tag = "Ok" THEN read_message_ret(s.string)
                     ELSE [tag |-> s.tag, message |-> "none"]
            IN  /\ inbound' = SubSeq(inbound, n + 1, Len(inbound))
                /\ SetLocals(st)
                /\ last_io' = Io("read", TRUE, n, port)
                /\ first_io' = IF first_io = "none" THEN "read" ELSE first_io
                /\ IF st.found_message_end
                   THEN /\ read_result' = r.tag
                        /\ json_string' = IF s.tag = "Ok" THEN s.string ELSE json_string
                        /\ message' = r.message
                        /\ ndecoded' = IF r.tag = "Ok" THEN ndecoded + 1 ELSE ndecoded
                        /\ pc' = AfterRead(r.tag)
                   ELSE /\ UNCHANGED <<read_result, json_string, message, ndecoded>>
                        /\ pc' = "port_read"
                /\ UNCHANGED <<port, faulted>>
       \/ /\ last_io' = Io("read", FALSE, 0, port)
          /\ first_io' = IF first_io = "none" THEN "read" ELSE first_io
          /\ read_result' = "IO"
          /\ pc' = AfterRead("IO")
          /\ port' = IF AfterRead("IO") = "get_port" THEN 0 ELSE port
          /\ faulted' = faulted \cup {port}
          /\ UNCHANGED <<locals, inbound, json_string, message, ndecoded>>
    /\ UNCHANGED <<nports, is_communication_begin, nsent, last_write, nwrites,
                   synthesized, last_request, last_out, last_config, get_port_env,
                   harnessVars>>

\* Whether main breaks out of the inner loop after write_message: it returns
\* handle_error(Error::IO(..)) when write_all failed.
WriteBreaks(ok) == ~ok /\ handle_error_is_err("IO")

\* res.is_some_and(|res| res.is_err()) taken for a break on every res that
\* is not Some(Ok(())).
LoopBreaks_NoneIsError(some, ok) == ~some \/ WriteBreaks(ok)

\* Whether main breaks out of the inner loop on
\* res = handle_message(&message).and_then(write_message):
\* res.is_some_and(|res| res.is_err()).
LoopBreaks(some, ok) == some /\ WriteBreaks(ok)

\* handle_message and, for Some(out_message), write_message.
Dispatch ==
    /\ pc = "dispatch"
    /\ \E factor \in Factors, ok \in BOOLEAN :
        LET out == handle_message(message, factor) IN
        /\ last_request' = message
        /\ last_out' = out
        /\ pc' = IF LoopBreaks(out.some, ok) THEN "get_port" ELSE "read_message"
        /\ port' = IF LoopBreaks(out.some, ok) THEN 0 ELSE port
        /\ IF out.some
           THEN /\ last_write' = write_message_buf(out.v)
                /\ nwrites' = nwrites + 1
                /\ last_io' = Io("write", ok, Len(write_message_buf(out.v)), port)
                /\ first_io' = IF first_io = "none" THEN "write" ELSE first_io
                /\ faulted' = IF ok THEN faulted ELSE faulted \cup {port}
                /\ last_config' = IF out.v.variant = "Configuration"
                                  THEN write_message_buf(out.v) ELSE last_config
           ELSE UNCHANGED <<last_write, nwrites, last_io, first_io, faulted,
                            last_config>>
    /\ message' = "none"
    /\ UNCHANGED <<nports, is_communication_begin, locals, inbound, nsent,
                   read_result, json_string, synthesized, ndecoded, get_port_env,
                   harnessVars>>

\* The peer transmits one chunk to the open port.
PeerSend ==
    /\ port # 0
    /\ nsent < MaxChunks
    /\ \E c \in PeerChunks :
        /\ Len(inbound) + Len(c) <= MaxInbound
        /\ inbound' = inbound \o c
    /\ nsent' = nsent + 1
    /\ UNCHANGED <<pc, port, nports, is_communication_begin, locals, message,
                   last_io, sessionHist, dispatchHist,
                   get_port_env, faulted, harnessVars>>

Next == GetPort \/ Activate \/ Sleep \/ ReadMessageBegin \/ ReadMessageString
        \/ PortRead \/ Dispatch \/ PeerSend

Spec == Init /\ [][Next]_vars

\* ------------------------------------------------------- framer harness
\* read_message_string called again and again on one port whose stream is
\* fixed from the start, as main's inner loop calls it through read_message;
\* every return is recorded with the stretch of the stream the call consumed.

\* The bytes of the streams: the delimiter, 'a', and the two bytes of U+00E9,
\* each of which alone is not UTF-8.
FramerBytes == {MESSAGE_END_BYTE, 97, 195, 169}

FramerStreams == UNION {[1..n -> FramerBytes] : n \in 0..MaxStream}

\* Bytes of stream0 consumed so far.
Consumed == Len(stream0) - Len(inbound)

InitFramer ==
    /\ stream0 \in FramerStreams
    /\ inbound = stream0
    /\ results = <<>>
    /\ pc = "h_call"
    /\ port = 1
    /\ nports = 1
    /\ is_communication_begin = FALSE
    /\ message_string_buffer = <<>>
    /\ found_message_start = FALSE
    /\ found_message_end = FALSE
    /\ message = "none"
    /\ nsent = 0
    /\ last_io = Io("dtr", TRUE, 0, 1)
    /\ read_result = "none"
    /\ json_string = <<>>
    /\ last_write = <<>>
    /\ first_io = "none"
    /\ nwrites = 0
    /\ synthesized = 0
    /\ get_port_env = "open_ok"
    /\ faulted = {}
    /\ ndecoded = 0
    /\ last_request = "none"
    /\ last_out = None
    /\ last_config = <<>>

\* read_message_string is entered.
HarnessCall ==
    /\ pc = "h_call"
    /\ SetLocals(ReadLocals0)
    /\ pc' = "h_read"
    /\ UNCHANGED <<port, nports, is_communication_begin, message, inbound, nsent,
                   last_io, sessionHist, dispatchHist,
                   get_port_env, faulted, harnessVars>>

\* One port.read of read_message_string: the for loop over the bytes read
\* and, when the closing delimiter was among them, the return through
\* from_utf8; Err(Error::IO) when the read fails, after which the port is
\* read no more.
HarnessRead ==
    /\ pc = "h_read"
    /\ \/ \E n \in 0..Min(ReadBufLen, Len(inbound)) :
            LET st == ProcessBytes(LocalsRec, SubSeq(inbound, 1, n))
                s == read_message_string_ret(st.message_string_buffer)
                start == IF results = <<>> THEN 0 ELSE results[Len(results)].stop
            IN  /\ inbound' = SubSeq(inbound, n + 1, Len(inbound))
                /\ SetLocals(st)
                /\ last_io' = Io("read", TRUE, n, port)
                /\ IF st.found_message_end
                   THEN /\ results' = Append(results,
                                [tag |-> s.tag, string |-> s.string,
                                 start |-> start, stop |-> Consumed + n])
                        /\ pc' = "h_call"
                   ELSE /\ UNCHANGED results
                        /\ pc' = "h_read"
       \/ /\ last_io' = Io("read", FALSE, 0, port)
          /\ results' = Append(results,
                [tag |-> "IO", string |-> <<>>,
                 start |-> IF results = <<>> THEN 0 ELSE results[Len(results)].stop,
                 stop |-> Consumed])
          /\ pc' = "h_done"
          /\ UNCHANGED <<locals, inbound>>
    /\ UNCHANGED <<port, nports, is_communication_begin, message, nsent,
                   sessionHist, dispatchHist,
                   get_port_env, faulted, stream0>>

NextFramer == HarnessCall \/ HarnessRead

SpecFramer == InitFramer /\ [][NextFramer]_vars

\* =============================================================== claims

NoDelim(s) == \A i \in 1..Len(s) : s[i] # MESSAGE_END_BYTE

\* The least index j >= i with s[j] the delimiter, Len(s) + 1 when none.
RECURSIVE NextDelim(_, _)
NextDelim(s, i) ==
    IF i > Len(s) THEN Len(s) + 1
    ELSE IF s[i] = MESSAGE_END_BYTE THEN i
    ELSE NextDelim(s, i + 1)

\* The stretch of stream0 a recorded call consumed.
Slice(r) == SubSeq(stream0, r.start + 1, r.stop)

\* The stretch of stream0 the call in progress has consumed.
CurrentSlice ==
    SubSeq(stream0,
           (IF results = <<>> THEN 0 ELSE results[Len(results)].stop) + 1,
           Consumed)

\* <delim><payload><delim> with a delimiter-free payload that is text.
IsTextFrame(sl) ==
    /\ Len(sl) >= 2
    /\ sl[1] = MESSAGE_END_BYTE
    /\ sl[Len(sl)] = MESSAGE_END_BYTE
    /\ NoDelim(SubSeq(sl, 2, Len(sl) - 1))
    /\ from_utf8_ok(SubSeq(sl, 2, Len(sl) - 1))

\* C1: framing round trip. A read_message_string call to which the stream
\* delivers exactly <delim><payload><delim>, the payload delimiter-free text,
\* in reads of one byte or none, returns Ok(payload); and it has returned as
\* soon as the closing delimiter is consumed.
C1_FramingRoundTrip ==
    /\ \A k \in 1..Len(results) :
        IsTextFrame(Slice(results[k])) =>
            /\ results[k].tag = "Ok"
            /\ results[k].string = SubSeq(Slice(results[k]), 2, Len(Slice(results[k])) - 1)
    /\ pc = "h_read" => ~IsTextFrame(CurrentSlice)

\* A call was handed <delim> 'a' U+00E9 <delim> and returned the three
\* payload bytes.
C1_Witness ==
    /\ Len(results) >= 1
    /\ Slice(results[1]) = Frame(<<97, 195, 169>>)
    /\ results[1].tag = "Ok"
    /\ results[1].string = <<97, 195, 169>>

\* C2: resynchronization, safety. Every returned payload is the bytes
\* strictly between the first and the second delimiter the call consumed,
\* the second being the last byte it consumed; it holds no delimiter and no
\* byte from ahead of the first delimiter. While a call runs, its buffer is
\* what followed the first delimiter, and empty before one came.
C2_Resynchronization ==
    /\ \A k \in 1..Len(results) :
        LET r == results[k]
            sl == Slice(r)
            i1 == NextDelim(sl, 1)
            i2 == NextDelim(sl, i1 + 1)
        IN  r.tag = "Ok" =>
                /\ i2 = Len(sl)
                /\ r.string = SubSeq(sl, i1 + 1, i2 - 1)
                /\ NoDelim(r.string)
    /\ pc = "h_read" =>
        LET i1 == NextDelim(CurrentSlice, 1) IN
        /\ found_message_start = (i1 <= Len(CurrentSlice))
        /\ message_string_buffer = SubSeq(CurrentSlice, i1 + 1, Len(CurrentSlice))

\* A call consumed bytes ahead of its first delimiter and returned a
\* non-empty payload.
C2_Witness ==
    \E k \in 1..Len(results) :
        /\ results[k].tag = "Ok"
        /\ results[k].string # <<>>
        /\ NextDelim(Slice(results[k]), 1) > 1

\* Whether s from index i on is a run of well-formed frames, each
\* <delim><payload><delim> with a non-empty delimiter-free text payload.
RECURSIVE IsFrames(_, _)
IsFrames(s, i) ==
    IF i > Len(s) THEN TRUE
    ELSE /\ s[i] = MESSAGE_END_BYTE
         /\ LET c == NextDelim(s, i + 1) IN
            /\ c <= Len(s)
            /\ c > i + 1
            /\ from_utf8_ok(SubSeq(s, i + 1, c - 1))
            /\ IsFrames(s, c + 1)

\* The <<opening, closing>> delimiter positions of those frames.
RECURSIVE FrameSpans(_, _)
FrameSpans(s, i) ==
    IF i > Len(s) THEN {}
    ELSE LET c == NextDelim(s, i + 1) IN {<<i, c>>} \cup FrameSpans(s, c + 1)

\* Where the well-formed frames start when stream0 opens with a stray
\* delimiter (at 2) or with a partial message, an opening delimiter and
\* payload bytes with no closing delimiter (at the next delimiter).
GarbledThenFrames(f0) ==
    /\ Len(stream0) >= 1
    /\ stream0[1] = MESSAGE_END_BYTE
    /\ f0 \in {2, NextDelim(stream0, 2)}
    /\ f0 <= Len(stream0)
    /\ IsFrames(stream0, f0)

\* C3: resynchronization, recovery. When a stray delimiter or a partial
\* message is followed by well-formed frames, the calls that consume the
\* stream return the payload of one of those frames: once the whole stream
\* is consumed without an I/O error, some call has returned Ok with the bytes
\* between the opening and the closing delimiter of a frame.
C3_Recovery ==
    \A f0 \in 1..(Len(stream0) + 1) :
        ( /\ GarbledThenFrames(f0)
          /\ inbound = <<>>
          /\ \A k \in 1..Len(results) : results[k].tag # "IO" )
        => \E k \in 1..Len(results) :
            /\ results[k].tag = "Ok"
            /\ <<results[k].stop - Len(results[k].string) - 1, results[k].stop>>
                    \in FrameSpans(stream0, f0)

\* The latest port operation was a read or a write that failed.
IoFailed == last_io.op \in {"read", "write"} /\ ~last_io.ok

\* C4: transport errors are fatal. When port.read or port.write_all returns
\* an I/O error the inner loop breaks: the handle is dropped, main stands at
\* get_port, and the handle main holds for reads and writes is never one of
\* an abandoned port.
C4_TransportErrorsFatal ==
    /\ IoFailed => /\ pc = "get_port"
                   /\ port = 0
                   /\ last_io.port \in faulted
    /\ port \notin faulted
    /\ (last_io.op \in {"read", "write"} /\ last_io.ok) => last_io.port = port

\* A read failed in Serving, in the middle of a frame.
C4_Witness ==
    /\ last_io = Io("read", FALSE, 0, 1)
    /\ nwrites = 1
    /\ message_string_buffer # <<>>
    /\ pc = "get_port"

\* The read that ended the latest read_message_string consumed the closing
\* delimiter of a frame, and nothing was done on the port since.
FrameJustRead ==
    /\ last_io.op = "read"
    /\ last_io.ok
    /\ last_io.n = 1
    /\ found_message_end
    /\ pc # "port_read"

\* C5: encoding and decoding errors are transient. A complete frame whose
\* bytes are not UTF-8 ends read_message with UtfConversion, one whose text
\* serde_json rejects ends it with JsonParsing; after either nothing is
\* written, the session keeps its port, and main stands at the next
\* read_message.
C5_TransientErrors ==
    /\ read_result \in {"UtfConversion", "JsonParsing"} =>
        /\ pc = "read_message"
        /\ port # 0
        /\ port \notin faulted
        /\ last_io = Io("read", TRUE, 1, port)
        /\ message = "none"
        /\ ~is_communication_begin
    /\ (FrameJustRead /\ ~from_utf8_ok(message_string_buffer)) =>
        read_result = "UtfConversion"
    /\ (FrameJustRead /\ from_utf8_ok(message_string_buffer)
            /\ ~ParseValue(message_string_buffer, SkipWs(message_string_buffer, 1)).ok) =>
        read_result = "JsonParsing"

\* In Serving a frame of bytes that are not UTF-8 was read and dropped.
C5_Witness ==
    /\ read_result = "UtfConversion"
    /\ message_string_buffer = NotUtf8
    /\ nwrites = 1
    /\ pc = "read_message"

\* Text that is JSON whose "type" member is absent, no unsigned integer, or
\* an integer other than 1 and 2.
BadDiscriminant(text) ==
    LET r == ParseValue(text, SkipWs(text, 1)) IN
    /\ r.ok
    /\ SkipWs(text, r.i) > Len(text)
    /\ LET ty == ValueGet(r.v, K_type) IN ~(IsU64(ty) /\ ty.n \in {1, 2})

\* C6: a payload whose discriminant is not 1 or 2, or whose "type" is absent
\* or no unsigned integer, fails the decode with Error::JsonParsing; the
\* process is not aborted and the session loop goes on to the next read.
C6_UnknownDiscriminant ==
    (FrameJustRead /\ from_utf8_ok(message_string_buffer)
        /\ BadDiscriminant(message_string_buffer)) =>
        /\ read_result = "JsonParsing"
        /\ pc = "read_message"

\* The Configuration payload: "type" 1, the default theme, one COOLANT gauge
\* on display1, one OIL gauge on display2, none on display3.
ConfigurationPayload == <<
    123, 34, 116, 121, 112, 101, 34, 58, 49, 44, 34, 109, 101, 115, 115, 97,
    103, 101, 34, 58, 123, 34, 116, 104, 101, 109, 101, 34, 58, 123, 34, 111,
    107, 95, 99, 111, 108, 111, 114, 34, 58, 54, 52, 53, 49, 50, 44, 34,
    108, 111, 119, 95, 99, 111, 108, 111, 114, 34, 58, 51, 49, 44, 34, 104,
    105, 103, 104, 95, 99, 111, 108, 111, 114, 34, 58, 54, 51, 52, 56, 56,
    44, 34, 97, 108, 101, 114, 116, 95, 99, 111, 108, 111, 114, 34, 58, 54,
    51, 52, 56, 56, 125, 44, 34, 100, 105, 115, 112, 108, 97, 121, 49, 34,
    58, 123, 34, 103, 97, 117, 103, 101, 115, 34, 58, 91, 123, 34, 110, 97,
    109, 101, 34, 58, 34, 67, 79, 79, 76, 65, 78, 84, 34, 44, 34, 117,
    110, 105, 116, 115, 34, 58, 34, 67, 34, 44, 34, 102, 111, 114, 109, 97,
    116, 34, 58, 34, 37, 46, 48, 102, 34, 44, 34, 109, 105, 110, 34, 58,
    48, 46, 48, 44, 34, 109, 97, 120, 34, 58, 49, 51, 48, 46, 48, 44,
    34, 108, 111, 119, 95, 118, 97, 108, 117, 101, 34, 58, 54, 48, 46, 48,
    44, 34, 104, 105, 103, 104, 95, 118, 97, 108, 117, 101, 34, 58, 49, 48,
    48, 46, 48, 125, 93, 125, 44, 34, 100, 105, 115, 112, 108, 97, 121, 50,
    34, 58, 123, 34, 103, 97, 117, 103, 101, 115, 34, 58, 91, 123, 34, 110,
    97, 109, 101, 34, 58, 34, 79, 73, 76, 34, 44, 34, 117, 110, 105, 116,
    115, 34, 58, 34, 98, 97, 114, 34, 44, 34, 102, 111, 114, 109, 97, 116,
    34, 58, 34, 37, 46, 50, 102, 34, 44, 34, 109, 105, 110, 34, 58, 48,
    46, 48, 44, 34, 109, 97, 120, 34, 58, 49, 48, 46, 48, 44, 34, 108,
    111, 119, 95, 118, 97, 108, 117, 101, 34, 58, 49, 46, 48, 44, 34, 104,
    105, 103, 104, 95, 118, 97, 108, 117, 101, 34, 58, 56, 46, 48, 125, 93,
    125, 44, 34, 100, 105, 115, 112, 108, 97, 121, 51, 34, 58, 123, 34, 103,
    97, 117, 103, 101, 115, 34, 58, 91, 93, 125, 125, 125>>

\* C7: handshake. In every session the first read or write on the port is
\* the write of the Configuration, made from the one NeedGaugeConfig
\* read_message synthesizes; no port.read comes before it and no second
\* request is synthesized in the session.
C7_Handshake ==
    /\ first_io # "read"
    /\ pc = "port_read" => first_io = "write"
    /\ (first_io = "write" /\ nwrites = 1) =>
        last_write = Append(ConfigurationPayload, MESSAGE_END_BYTE)
    /\ first_io = "write" => synthesized = 1
    /\ synthesized <= 1
    /\ (pc \in {"dispatch", "port_read"} /\ port # 0) => synthesized = 1

\* The session has written the Configuration and is reading.
C7_Witness ==
    /\ first_io = "write"
    /\ nwrites = 1
    /\ synthesized = 1
    /\ last_io = Io("read", TRUE, 1, port)
    /\ pc = "port_read"

\* C8: end-to-end framing of output. In Serving, the request {"type":1} read
\* from the wire makes the session write <delim><Configuration><delim>.
C8_EndToEnd ==
    (last_io.op = "write" /\ nwrites >= 2 /\ read_result = "Ok"
        /\ json_string = ReqConfig) =>
        last_write = Frame(ConfigurationPayload)

\* C9: every buffer written is the encoded response followed by one
\* delimiter, its last byte, and the payload holds no delimiter; the payload
\* is JSON with "type" 1 or 2, the Configuration when 1. A request that was
\* decoded is answered by such a write before the next read_message.
C9_WriteTerminated ==
    /\ last_io.op = "write" =>
        LET n == Len(last_write)
            payload == SubSeq(last_write, 1, n - 1)
            r == ParseValue(payload, 1)
        IN  /\ n >= 2
            /\ last_io.n = n
            /\ last_write[n] = MESSAGE_END_BYTE
            /\ NoDelim(payload)
            /\ r.ok
            /\ r.i = n
            /\ IsU64(ValueGet(r.v, K_type))
            /\ ValueGet(r.v, K_type).n \in {1, 2}
            /\ ValueGet(r.v, K_type).n = 1 => payload = ConfigurationPayload
    /\ (read_result = "Ok" /\ pc = "read_message") =>
        last_io = Io("write", TRUE, Len(last_write), port)

\* In Serving a NeedGaugeData request read from the wire was answered.
C9_Witness ==
    /\ last_io.op = "write"
    /\ last_io.ok
    /\ nwrites = 2
    /\ json_string = ReqData
    /\ last_write # Append(ConfigurationPayload, MESSAGE_END_BYTE)

\* C10: get_port returns None when the enumeration is empty and when the
\* open of the listed port fails; the process goes on, main sleeps and calls
\* get_port again.
C10_GetPortNone ==
    (last_io.op = "open" /\ get_port_env \in {"empty", "open_fail"}) =>
        pc \in {"sleep", "get_port"}

\* C11: from Faulted to AwaitingPort. After port.read or port.write_all
\* failed, the handle of that session is dropped and no later read or write
\* is made on it; main stands at get_port; and the session opened after it
\* starts with is_communication_begin set, so that its first operation on
\* the new port is the write of the Configuration, before any read.
C11_FaultedToAwaitingPort ==
    /\ \A p \in faulted : /\ p # port
                          /\ last_io.port = p => IoFailed
    /\ IoFailed => pc = "get_port" /\ port = 0
    /\ (faulted # {} /\ port # 0) =>
        /\ port = nports
        /\ pc = "activate" =>
            is_communication_begin /\ first_io = "none" /\ nwrites = 0
        /\ first_io # "read"
        /\ pc = "port_read" => first_io = "write"
        /\ first_io = "write" =>
            /\ ~is_communication_begin
            /\ synthesized = 1
            /\ last_config = Append(ConfigurationPayload, MESSAGE_END_BYTE)
            /\ nwrites = 1 => last_write = last_config

\* The session on the first port ended with an I/O error; the session on the
\* second port has written its Configuration and is reading.
C11_Witness ==
    /\ faulted = {1}
    /\ port = 2
    /\ first_io = "write"
    /\ nwrites = 1
    /\ last_io = Io("write", TRUE, Len(last_write), 2)
    /\ pc = "port_read"

\* C12: a port.read that returns Ok(0) inside read_message_string is neither
\* an error nor the end of the stream. The step leaves message_string_buffer,
\* found_message_start and found_message_end as they were, read_message_string
\* has not returned and stands at the next port.read, and the session keeps
\* its port.
C12_ZeroByteRead ==
    [][(/\ pc = "port_read"
        /\ nsent' = nsent
        /\ last_io' = Io("read", TRUE, 0, port))
       => /\ locals' = locals
          /\ inbound' = inbound
          /\ pc' = "port_read"
          /\ read_result' = "pending"
          /\ port' = port
          /\ port # 0
          /\ faulted' = faulted
          /\ UNCHANGED <<message, sessionHist, dispatchHist>>]_vars

\* In Serving, a read returned no byte in the middle of a frame.
C12_Witness ==
    /\ last_io = Io("read", TRUE, 0, port)
    /\ pc = "port_read"
    /\ found_message_start
    /\ message_string_buffer # <<>>
    /\ inbound # <<>>
    /\ nwrites >= 1

\* C13: polling reconnect. Whenever get_port yields no port, main sleeps the
\* one second and calls get_port again, forever, so that a port that becomes
\* and stays available is eventually opened and served. In finite form: as
\* long as main holds no port it is polling, standing at get_port or at the
\* sleep before the next get_port.
C13_PollingReconnect ==
    port = 0 => pc \in {"get_port", "sleep"}

\* The number of gauges of display1, display2 and display3 in a written
\* buffer, read back from its JSON.
WireArity(buf) ==
    LET r == ParseValue(SubSeq(buf, 1, Len(buf) - 1), 1)
        msg == ValueGet(r.v, K_message)
        g(d) == ValueGet(ValueGet(msg, d), K_gauges)
    IN  IF r.ok /\ g(K_display1).kind = "Array" /\ g(K_display2).kind = "Array"
              /\ g(K_display3).kind = "Array"
        THEN <<Len(g(K_display1).a), Len(g(K_display2).a), Len(g(K_display3).a)>>
        ELSE <<>>

\* C14: dispatch totality and arity. handle_message returns Some(response)
\* or None for every request variant, None only for the variant that asks for
\* no reply; and every Data buffer written in a session carries, for each of
\* display1, display2 and display3, as many gauges as the Configuration most
\* recently written in that session: 1, 1 and 0. The buffers are compared in
\* the states that follow a write, before the next read is entered.
C14_DispatchArity ==
    /\ \A m \in InMessages, f \in Factors :
        /\ handle_message(m, f).some <=> m # "Debug"
        /\ handle_message(m, f).some =>
            handle_message(m, f).v.variant \in {"Configuration", "Data"}
    /\ (last_out.some /\ last_out.v.variant = "Data") => last_config # <<>>
    /\ (last_io.op = "write" /\ pc # "port_read") =>
        /\ WireArity(last_write) = WireArity(last_config)
        /\ WireArity(last_write) = <<1, 1, 0>>

\* The session answered its second request from the wire with a Data.
C14_Witness ==
    /\ last_out.some
    /\ last_out.v.variant = "Data"
    /\ last_request = "NeedGaugeData"
    /\ ndecoded = 2
    /\ nwrites = 3
    /\ last_io = Io("write", TRUE, Len(last_write), port)

\* ----------------------------------------------------- dispatch of Debug
\* main.rs matches InMessage::Debug, a variant the InMessage of dto.rs does
\* not declare and InMessage::deserialize never returns. The inner loop is
\* entered here at the point where read_message has returned Ok(message),
\* for every variant handle_message has an arm for; the wire text of a
\* Debug request is not modelled.

InitDispatch ==
    /\ message \in InMessages
    /\ pc = "dispatch"
    /\ port = 1
    /\ nports = 1
    /\ is_communication_begin = FALSE
    /\ message_string_buffer = <<>>
    /\ found_message_start = TRUE
    /\ found_message_end = TRUE
    /\ inbound = <<>>
    /\ nsent = 0
    /\ last_io = Io("read", TRUE, 1, 1)
    /\ read_result = "Ok"
    /\ json_string = <<>>
    /\ last_write = write_message_buf(ConfigurationMessage)
    /\ first_io = "write"
    /\ nwrites = 1
    /\ synthesized = 1
    /\ get_port_env = "open_ok"
    /\ faulted = {}
    /\ ndecoded = 1
    /\ last_request = "NeedGaugeConfig"
    /\ last_out = Some(ConfigurationMessage)
    /\ last_config = write_message_buf(ConfigurationMessage)
    /\ stream0 = <<>>
    /\ results = <<>>

SpecDispatch == InitDispatch /\ [][Next]_vars

\* C15: a request for which handle_message returns None causes no write and
\* is not treated as an error. The step of main that dispatches it makes no
\* operation on the port, keeps the port, and leaves main at the next
\* read_message.
C15_NoReply ==
    [][(/\ pc = "dispatch"
        /\ pc' # "dispatch"
        /\ \A f \in Factors : ~handle_message(message, f).some)
       => /\ pc' = "read_message"
          /\ port' = port
          /\ port # 0
          /\ faulted' = faulted
          /\ UNCHANGED <<last_io, last_write, nwrites, first_io, last_config,
                         inbound, read_result>>]_vars

\* A Debug request was dispatched and the session reads on from the same
\* port, having written nothing but its Configuration.
C15_Witness ==
    /\ last_request = "Debug"
    /\ ~last_out.some
    /\ port = 1
    /\ nwrites = 1
    /\ last_io = Io("read", TRUE, 1, 1)
    /\ pc = "port_read"

\* C16: Configuration determinism. Within one session every NeedGaugeConfig,
\* the synthesized one and any read from the wire later, is answered with a
\* Configuration, and the buffer written for it is byte for byte the buffer
\* of the Configuration written before it in the session, whatever was
\* requested or failed in between.
C16_ConfigurationDeterminism ==
    /\ [](last_request = "NeedGaugeConfig" =>
            /\ last_out.some
            /\ last_out.v.variant = "Configuration"
            /\ last_config # <<>>
            /\ last_io.op = "write" => last_write = last_config)
    /\ [][(last_config # <<>> /\ last_config' # <<>>)
            => last_config' = last_config]_vars

\* After the handshake and one more answered request, a NeedGaugeConfig
\* read from the wire was answered.
C16_Witness ==
    /\ last_request = "NeedGaugeConfig"
    /\ json_string = ReqConfig
    /\ ndecoded = 2
    /\ nwrites = 3
    /\ last_io = Io("write", TRUE, Len(last_config), port)

\* The values of a Data message, in thousandths.
Value1(out) == out.message.display1.gauges[1].current_value

Value2(out) == out.message.display2.gauges[1].current_value

\* 0 <= value1 <= 77.0 and 0 <= value2 <= 6.5.
DataInBounds(out) ==
    /\ 0 <= Value1(out) /\ Value1(out) <= 77000
    /\ 0 <= Value2(out) /\ Value2(out) <= 6500

\* value1 / 77.0 - value2 / 6.5, multiplied by 77.0 * 6.5.
RatioGap(out) == Value1(out) * 6500 - Value2(out) * 77000

\* value1 / 77.0 = value2 / 6.5.
SameRatio(out) == RatioGap(out) = 0

\* value1 / 77.0 and value2 / 6.5 differ by no more than the rounding of the
\* two products: half a unit of the last place in each value.
SameRatioRounded(out) ==
    /\ 2 * RatioGap(out) <= 6500 + 77000
    /\ 2 * RatioGap(out) >= 0 - (6500 + 77000)

\* C17 as stated: Data bounds. For every NeedGaugeData request and every
\* factor in [0, 1) the generator yields, the Data message has a display1
\* value in [0, 77.0] and a display2 value in [0, 6.5], and
\* value1 / 77.0 equals value2 / 6.5.
C17_DataBoundsExact ==
    last_request = "NeedGaugeData" =>
        /\ last_out.some
        /\ last_out.v.variant = "Data"
        /\ DataInBounds(last_out.v)
        /\ SameRatio(last_out.v)

\* C17 as amended: Data bounds. For every NeedGaugeData request and every
\* factor in [0, 1) the generator yields, the Data message has a display1
\* value in [0, 77.0] and a display2 value in [0, 6.5], both the rounded
\* product of the same factor: value1 / 77.0 and value2 / 6.5 agree up to the
\* rounding of the two products.
C17_DataBounds ==
    /\ \A f \in Factors :
        /\ 0 <= f /\ f < Milli
        /\ handle_message("NeedGaugeData", f).some
        /\ DataInBounds(handle_message("NeedGaugeData", f).v)
        /\ SameRatioRounded(handle_message("NeedGaugeData", f).v)
    /\ last_request = "NeedGaugeData" =>
        /\ last_out.some
        /\ last_out.v.variant = "Data"
        /\ DataInBounds(last_out.v)
        /\ SameRatioRounded(last_out.v)

\* A NeedGaugeData read from the wire was answered with the values of the
\* factor 0.333: 25.641 and 2.164, the second a rounded product.
C17_Witness ==
    /\ last_request = "NeedGaugeData"
    /\ json_string = ReqData
    /\ last_out.some
    /\ Value1(last_out.v) = 25641
    /\ Value2(last_out.v) = 2164
    /\ ~SameRatio(last_out.v)
    /\ last_io.op = "write"

\* C18: strict alternation of request and response. A read and a write are
\* never in progress together: while read_message_string reads, no request
\* awaits its response, and a response is written only once read_message has
\* returned. After the handshake write, every write answers exactly one
\* request decoded since the write before it, so the writes of a session
\* number at most 1 plus the requests decoded from the port in that session.
C18_Alternation ==
    /\ nwrites <= 1 + ndecoded
    /\ synthesized <= 1
    /\ pc = "dispatch" =>
        /\ nwrites + 1 = synthesized + ndecoded
        /\ read_result = "Ok"
        /\ message \in InMessages
    /\ pc # "dispatch" =>
        /\ nwrites = synthesized + ndecoded
        /\ message = "none"
    /\ pc = "port_read" => read_result = "pending"

\* The session has answered the handshake and two requests from the wire,
\* and stands before its next read.
C18_Witness ==
    /\ nwrites = 3
    /\ ndecoded = 2
    /\ synthesized = 1
    /\ last_io.op = "write"
    /\ last_io.ok
    /\ pc = "read_message"

\* s from index i on is a sequence of frames <delim><payload><delim>, each
\* payload delimiter-free (it may be empty, and need not be text).
RECURSIVE IsFrameSeq(_, _)
IsFrameSeq(s, i) ==
    IF i > Len(s) THEN TRUE
    ELSE /\ s[i] = MESSAGE_END_BYTE
         /\ NextDelim(s, i + 1) <= Len(s)
         /\ IsFrameSeq(s, NextDelim(s, i + 1) + 1)

\* The frames of such a sequence in order, each as the indices of its two
\* delimiters.
RECURSIVE FrameSeq(_, _)
FrameSeq(s, i) ==
    IF i > Len(s) THEN <<>>
    ELSE <<(<<i, NextDelim(s, i + 1)>>)>> \o FrameSeq(s, NextDelim(s, i + 1) + 1)

\* C19: read_message_string consumes no byte beyond the closing delimiter
\* of the frame it returns. Every call that returns ends on a delimiter of
\* the stream and the next call starts at the byte after it; so on a stream
\* that is a sequence of frames from its first byte, the k-th call consumes
\* exactly the k-th frame and returns its payload (UtfConversion when the
\* payload is not text), and once the stream is consumed there are as many
\* returns as frames: none lost, duplicated or reordered.
C19_FrameOrder ==
    /\ \A k \in 1..Len(results) :
        results[k].tag # "IO" =>
            /\ results[k].stop >= 1
            /\ stream0[results[k].stop] = MESSAGE_END_BYTE
    /\ (pc = "h_call" /\ results # <<>>) => Consumed = results[Len(results)].stop
    /\ IsFrameSeq(stream0, 1) =>
        LET fs == FrameSeq(stream0, 1) IN
        /\ \A k \in 1..Len(results) :
            results[k].tag # "IO" =>
                /\ k <= Len(fs)
                /\ results[k].start = fs[k][1] - 1
                /\ results[k].stop = fs[k][2]
                /\ LET p == SubSeq(stream0, fs[k][1] + 1, fs[k][2] - 1) IN
                   IF from_utf8_ok(p)
                   THEN results[k].tag = "Ok" /\ results[k].string = p
                   ELSE results[k].tag = "UtfConversion"
        /\ (pc = "h_call" /\ inbound = <<>>) => Len(results) = Len(fs)

\* Two frames back to back, the second with an empty payload, were read by
\* two calls, each returning its own payload.
C19_Witness ==
    /\ stream0 = <<MESSAGE_END_BYTE, 97, 97, MESSAGE_END_BYTE,
                   MESSAGE_END_BYTE, MESSAGE_END_BYTE>>
    /\ Len(results) = 2
    /\ results[1].tag = "Ok" /\ results[1].string = <<97, 97>>
    /\ results[2].tag = "Ok" /\ results[2].string = <<>>
    /\ pc = "h_call"

====
